---- MODULE Spec2Model ----
(***************************************************************************)
(* Model of the draft pipeline of the email workflow scripts:              *)
(*   email_utils.atomic_write      temp file + os.replace persistence      *)
(*   email_utils.normalize_draft   recipient canonicalisation              *)
(*   draft-email.main              one invocation of the drafting CLI      *)
(*   draft-email.parse_draft_response, format_thread                      *)
(*   email_utils.format_participant, clean_messages                        *)
(*   pre-commit-checks.main        the commit and push hook                *)
(*   pre-commit-checks.check_deno_tests, check_deno_lint                   *)
(*   email_utils.update_thread_labels                                      *)
(*   truncate, line                the text engine and panel row of the    *)
(*                                 specification, sections 4.2 and 4.3     *)
(* The file system is modelled as directory entries bound to inodes, so    *)
(* that a reader's open() and read() are separate steps.                   *)
(***************************************************************************)
EXTENDS Integers, Sequences, FiniteSets, TLC

VARIABLES
    path,    \* the target path given to atomic_write / --output / --previous-draft
    dir,     \* directory entries: <<directory, base name>> -> inode number, 0 = no file
    inode,   \* inode number -> file content on disk (a sequence of characters)
    aw,      \* the running atomic_write call (position, arguments, locals)
    rd,      \* a concurrent reader doing open(path) then read()
    calls,   \* number of atomic_write calls started so far
    m,       \* the running invocation of draft-email.py main()
    rounds,  \* number of invocations started so far
    lastOut, \* the content the latest completed write put at the path (NoFile: none yet)
    nd,      \* the running normalize_draft call (position, argument, locals)
    pr,      \* the parse_draft_response call of main, line 307
    fmt,     \* a format_participant and a format_thread call
    cm,      \* the running clean_messages call
    hk,      \* the running pre-commit hook process
    tr,      \* a truncate call and a line call of the panel renderer
    ul,      \* the running update_thread_labels call
    dn,      \* the running check_deno_tests or check_deno_lint call
    rt       \* a second normalize_draft call on the result of the first

fsVars == <<path, dir, inode, aw, rd, calls>>

mainVars == <<m, rounds, lastOut>>

normVars == <<nd>>

auxVars == <<pr, fmt, cm, hk>>

moreVars == <<tr, ul, dn, rt>>

vars == <<path, dir, inode, aw, rd, calls, m, rounds, lastOut, nd, pr, fmt, cm, hk,
          tr, ul, dn, rt>>

(***************************************************************************)
(* Bounds                                                                  *)
(***************************************************************************)
\* atomic_write calls made in one behaviour
MaxCalls == 2

\* invocations of draft-email.py made one after the other in one behaviour
MaxRounds == 2

\* longest recipient list of a draft given to normalize_draft
MaxList == 2

(***************************************************************************)
(* Files, names and contents                                               *)
(***************************************************************************)
Dirs == {".", "sub"}

TargetBase == "draft.json"

\* names tempfile may generate ("tmp" + random characters)
TmpBases == {"tmpa", "tmpb"}

BaseNames == {TargetBase} \cup TmpBases

Entries == Dirs \X BaseNames

NoEntry == <<"", "">>

\* a path is its os.path.dirname part and its base name
Paths == {[dirname |-> "", base |-> TargetBase], [dirname |-> "sub", base |-> TargetBase]}

\* every call creates at most one file, next to the one that may exist at the start
Inodes == 1 .. (MaxCalls + MaxRounds + 1)

\* contents handed to atomic_write; main always appends "\n" (draft-email.py:318)
Contents == {<<"a", "b", "\n">>, <<"b", "\n">>, <<"\n">>}

NoFile == <<"<no file>">>

NotRead == <<"<not read>">>

IsPrefix(s, t) == Len(s) <= Len(t) /\ SubSeq(t, 1, Len(s)) = s

\* the directory entry a path names: a relative path with no directory part
\* names a file of the current directory
Resolve(p) == <<IF p.dirname = "" THEN "." ELSE p.dirname, p.base>>

\* what open(p).read() would return right now
Visible(p) == IF dir[Resolve(p)] = 0 THEN NoFile ELSE inode[dir[Resolve(p)]]

Listdir(d) == {b \in BaseNames : dir[<<d, b>>] # 0}

\* inodes some directory entry or open file still refers to
Referenced(dd, fds) == {dd[e] : e \in Entries} \cup fds

\* an inode nothing refers to is freed (its content is gone)
Collect(dd, ii, fds) == [i \in Inodes |-> IF i \in Referenced(dd, fds) THEN ii[i] ELSE <<>>]

FreeInode(fds) == CHOOSE i \in Inodes : i \notin Referenced(dir, fds)

OpenFds == {aw.fd, rd.fd} \ {0}

(***************************************************************************)
(* atomic_write(path, content)                       email_utils.py:378-396 *)
(***************************************************************************)
AwIdle == [pc |-> "idle", content |-> <<>>, tmp |-> NoEntry, fd |-> 0,
           old |-> NoFile, fresh |-> FALSE, fault |-> FALSE]

\* directory = os.path.dirname(path) or "."
Directory(p) == IF p.dirname # "" THEN p.dirname ELSE "."

\* InPlace: the write goes straight to the destination name
TempCandidatesInPlace(d) == {Resolve(path)}

\* NamedTemporaryFile(dir=directory): an unused generated name in that directory
TempCandidates(d) == {e \in {d} \X TmpBases : dir[e] = 0}

\* KeepSource: a copy onto the destination that leaves the source name behind
RenamedKeepSource(dd, src, dst) == [dd EXCEPT ![dst] = dd[src]]

\* os.replace(src, dst): dst names src's file, src is gone, in one step
Renamed(dd, src, dst) ==
    IF src = dst THEN dd
    ELSE [e \in Entries |-> IF e = dst THEN dd[src] ELSE IF e = src THEN 0 ELSE dd[e]]

\* Swallowed: the failure is caught and the call reports success
RaisedSwallowed(a) == [a EXCEPT !.pc = "returned", !.fault = TRUE]

\* no try/except around the I/O: the exception leaves atomic_write
Raised(a) == [a EXCEPT !.pc = "raised", !.fault = TRUE]

\* Unflushed: close without writing the buffered rest
FlushedUnflushed(a) == inode[a.fd]

\* leaving the with block closes the file, which writes whatever is buffered
Flushed(a) == a.content

\* entry to atomic_write(path, content); old and fresh record the state at the call
AwStart(content) ==
    [AwIdle EXCEPT !.pc = "create", !.content = content,
                   !.old = Visible(path),
                   !.fresh = (Listdir(Directory(path)) \subseteq {path.base})]

\* the caller's call: a test or script calling atomic_write(path, content)
AWCall(content) ==
    /\ aw.pc \in {"idle", "returned", "raised"}
    /\ calls < MaxCalls
    /\ calls' = calls + 1
    /\ aw' = AwStart(content)
    /\ UNCHANGED <<path, dir, inode, rd, mainVars, normVars, auxVars, moreVars>>

\* line 391: the temp file is created empty, under a new name, and opened
AWCreate ==
    /\ aw.pc = "create"
    /\ \E e \in TempCandidates(Directory(path)) :
          LET i == FreeInode(OpenFds) IN
          /\ dir' = [dir EXCEPT ![e] = i]
          /\ inode' = Collect(dir', [inode EXCEPT ![i] = <<>>], OpenFds \cup {i})
          /\ aw' = [aw EXCEPT !.pc = "write", !.tmp = e, !.fd = i]
    /\ UNCHANGED <<path, rd, calls, mainVars, normVars, auxVars, moreVars>>

\* line 392: tmp.write(content); the characters reach the disk one after another
AWWrite ==
    /\ aw.pc = "write"
    /\ Len(inode[aw.fd]) < Len(aw.content)
    /\ inode' = [inode EXCEPT ![aw.fd] = Append(@, aw.content[Len(@) + 1])]
    /\ UNCHANGED <<path, dir, aw, rd, calls, mainVars, normVars, auxVars, moreVars>>

\* lines 393-394: tmp_path = tmp.name; the with block ends and closes the file
AWClose ==
    /\ aw.pc = "write"
    /\ inode' = Collect(dir, [inode EXCEPT ![aw.fd] = Flushed(aw)], {rd.fd} \ {0})
    /\ aw' = [aw EXCEPT !.pc = "replace", !.fd = 0]
    /\ UNCHANGED <<path, dir, rd, calls, mainVars, normVars, auxVars, moreVars>>

\* line 396: os.replace(tmp_path, path)
AWReplace ==
    /\ aw.pc = "replace"
    /\ dir' = Renamed(dir, aw.tmp, Resolve(path))
    /\ inode' = Collect(dir', inode, {rd.fd} \ {0})
    /\ aw' = [aw EXCEPT !.pc = "returned"]
    /\ UNCHANGED <<path, rd, calls, mainVars, normVars, auxVars, moreVars>>

\* line 391 fails (no usable name, no permission): nothing was created
AWFailCreate ==
    /\ aw.pc = "create"
    /\ aw' = Raised(aw)
    /\ UNCHANGED <<path, dir, inode, rd, calls, mainVars, normVars, auxVars, moreVars>>

\* line 392 or the close fails (disk full): delete=False leaves the temp file
AWFailWrite ==
    /\ aw.pc = "write"
    /\ aw' = [Raised(aw) EXCEPT !.fd = 0]
    /\ UNCHANGED <<path, dir, inode, rd, calls, mainVars, normVars, auxVars, moreVars>>

\* line 396 fails: the complete temp file stays, the destination is untouched
AWFailReplace ==
    /\ aw.pc = "replace"
    /\ aw' = Raised(aw)
    /\ UNCHANGED <<path, dir, inode, rd, calls, mainVars, normVars, auxVars, moreVars>>

(***************************************************************************)
(* A concurrent reader: open(path) and read() as two steps                 *)
(***************************************************************************)
RdIdle == [pc |-> "idle", fd |-> 0, seen |-> NotRead, during |-> FALSE,
           old |-> NoFile, new |-> NoFile]

Running == aw.pc \in {"create", "write", "replace"}

ROpen ==
    /\ rd.pc = "idle"
    /\ rd' = IF dir[Resolve(path)] = 0
                THEN [rd EXCEPT !.seen = NoFile, !.during = Running,
                                !.old = aw.old, !.new = aw.content]
                ELSE [rd EXCEPT !.pc = "open", !.fd = dir[Resolve(path)],
                                !.seen = NotRead, !.during = Running,
                                !.old = aw.old, !.new = aw.content]
    /\ UNCHANGED <<path, dir, inode, aw, calls, mainVars, normVars, auxVars, moreVars>>

RRead ==
    /\ rd.pc = "open"
    /\ rd' = [rd EXCEPT !.pc = "idle", !.fd = 0, !.seen = inode[rd.fd]]
    /\ inode' = Collect(dir, inode, {aw.fd} \ {0})
    /\ UNCHANGED <<path, dir, aw, calls, mainVars, normVars, auxVars, moreVars>>

(***************************************************************************)
(* draft-email.py main(): one invocation                draft-email.py:201 *)
(***************************************************************************)
Feedbacks == {"none", "empty", "blank", "text"}

PathArgs == {"none", "empty", "path"}

\* Python truth of an optional string argument
ArgGiven(a) == a \in {"blank", "text", "path"}

\* only the empty text taken for blank
IsBlankEmptyOnly(c) == c = <<>>

\* s.strip() == "" for a file content or an argument
IsBlank(c) == \A i \in 1 .. Len(c) : c[i] \in {" ", "\n"}

MIdle == [pc |-> "idle", feedback |-> "none", previous_draft |-> "none", output |-> "none",
          fd |-> 0, previous_draft_json |-> NotRead, content |-> <<>>,
          gen |-> "none", net |-> 0, printed |-> FALSE,
          start |-> NoFile, opens |-> 0, ioerror |-> FALSE, env |-> FALSE, fetch |-> "none",
          writes |-> 0]

\* NoExit: the error is reported and the run goes on to the output step
Exit1NoExit(r) == [r EXCEPT !.pc = "output", !.fd = 0]

\* sys.exit(1)
Exit1(r) == [r EXCEPT !.pc = "exit1", !.fd = 0]

\* a new process is started with its arguments (argparse, line 236)
MStart(fb, pd, out) ==
    /\ m.pc \in {"idle", "done", "exit1", "raised"}
    /\ rounds < MaxRounds
    /\ rounds' = rounds + 1
    /\ m' = [MIdle EXCEPT !.pc = "args", !.feedback = fb, !.previous_draft = pd, !.output = out,
                          !.start = Visible(path)]
    /\ aw' = AwIdle
    /\ UNCHANGED <<path, dir, inode, rd, calls, lastOut, normVars, auxVars, moreVars>>

\* lines 238-248: the two argument checks, then the branch on args.feedback
MArgs ==
    /\ m.pc = "args"
    /\ m' = IF ArgGiven(m.feedback) /\ ~ArgGiven(m.previous_draft) THEN Exit1(m)
            ELSE IF ArgGiven(m.previous_draft) /\ ~ArgGiven(m.feedback) THEN Exit1(m)
            ELSE IF ArgGiven(m.feedback) THEN [m EXCEPT !.pc = "open_prev"]
            ELSE [m EXCEPT !.pc = "check_env"]
    /\ UNCHANGED <<fsVars, rounds, lastOut, normVars, auxVars, moreVars>>

\* line 250: open(args.previous_draft); FileNotFoundError and IOError exit with 1
MOpenPrev ==
    /\ m.pc = "open_prev"
    /\ \/ /\ dir[Resolve(path)] = 0
          /\ m' = [Exit1(m) EXCEPT !.opens = @ + 1]
       \/ /\ dir[Resolve(path)] # 0
          /\ \/ m' = [m EXCEPT !.pc = "read_prev", !.fd = dir[Resolve(path)], !.opens = @ + 1]
             \/ m' = [Exit1(m) EXCEPT !.opens = @ + 1, !.ioerror = TRUE]
    /\ UNCHANGED <<fsVars, rounds, lastOut, normVars, auxVars, moreVars>>

\* line 251: f.read(), and the with block closes the file
MReadPrev ==
    /\ m.pc = "read_prev"
    /\ \/ m' = [m EXCEPT !.pc = "validate", !.previous_draft_json = inode[m.fd], !.fd = 0]
       \/ m' = [Exit1(m) EXCEPT !.ioerror = TRUE]
    /\ UNCHANGED <<fsVars, rounds, lastOut, normVars, auxVars, moreVars>>

\* lines 260-267: an empty or blank previous draft, or a blank feedback, exits with 1
MValidate ==
    /\ m.pc = "validate"
    /\ m' = IF IsBlank(m.previous_draft_json) THEN Exit1(m)
            ELSE IF m.feedback = "blank" THEN Exit1(m)
            ELSE [m EXCEPT !.pc = "check_env"]
    /\ UNCHANGED <<fsVars, rounds, lastOut, normVars, auxVars, moreVars>>

\* line 269: check_env exits with 1 when a variable is missing
MCheckEnv ==
    /\ m.pc = "check_env"
    /\ \/ m' = [m EXCEPT !.pc = "fetch", !.env = TRUE]
       \/ m' = [Exit1(m) EXCEPT !.env = TRUE]
    /\ UNCHANGED <<fsVars, rounds, lastOut, normVars, auxVars, moreVars>>

FetchOutcomes == {"ok", "request_failed", "no_thread", "no_ids", "clean_failed", "no_messages"}

\* requests made to Nylas before main goes on or exits, by outcome
FetchRequests(o) == IF o \in {"request_failed", "no_thread", "no_ids"} THEN 1 ELSE 2

\* an empty clean_messages result taken for messages to draft from
FetchOkEmptyClean(o) == o \in {"ok", "no_messages"}

\* lines 273, 279, 285: the thread, its message_ids and the cleaned messages are all non-empty
FetchOk(o) == o = "ok"

\* lines 272-290: get_thread, message_ids, clean_messages; each failure exits with 1
MFetch ==
    /\ m.pc = "fetch"
    /\ \E o \in FetchOutcomes :
          m' = IF FetchOk(o)
                  THEN [m EXCEPT !.pc = "generate", !.net = @ + FetchRequests(o), !.fetch = o]
                  ELSE [Exit1(m) EXCEPT !.net = @ + FetchRequests(o), !.fetch = o]
    /\ UNCHANGED <<fsVars, rounds, lastOut, normVars, auxVars, moreVars>>

\* WhenPrevious: the generator chosen by --previous-draft
GeneratorWhenPrevious(r) == IF r.previous_draft # "none" THEN "feedback" ELSE "plain"

\* line 299: if args.feedback: generate_with_feedback, else generate_draft
Generator(r) == IF ArgGiven(r.feedback) THEN "feedback" ELSE "plain"

\* lines 299-305: one of the two generators calls Anthropic; call_anthropic exits on failure
MGenerate ==
    /\ m.pc = "generate"
    /\ \E ok \in BOOLEAN :
          LET g == [m EXCEPT !.gen = Generator(m), !.net = @ + 1]
          IN  m' = IF ok THEN [g EXCEPT !.pc = "parse"] ELSE Exit1(g)
    /\ UNCHANGED <<fsVars, rounds, lastOut, normVars, auxVars, moreVars>>

\* lines 307-314: parse, normalize and format; output_content + "\n" is what is written
MParse ==
    /\ m.pc = "parse"
    /\ \/ \E c \in Contents : m' = [m EXCEPT !.pc = "output", !.content = c]
       \/ m' = [m EXCEPT !.pc = "raised"]
    /\ UNCHANGED <<fsVars, rounds, lastOut, normVars, auxVars, moreVars>>

\* lines 317-320: atomic_write to args.output, or print
MOutput ==
    /\ m.pc = "output"
    /\ IF ArgGiven(m.output)
          THEN /\ m' = [m EXCEPT !.pc = "writing", !.writes = @ + 1]
               /\ aw' = AwStart(m.content)
          ELSE /\ m' = [m EXCEPT !.pc = "done", !.printed = TRUE]
               /\ aw' = aw
    /\ UNCHANGED <<path, dir, inode, rd, calls, rounds, lastOut, normVars, auxVars, moreVars>>

\* atomic_write came back: main ends, or the exception ends it
MWritten ==
    /\ m.pc = "writing"
    /\ \/ /\ aw.pc = "returned"
          /\ m' = [m EXCEPT !.pc = "done"]
          /\ lastOut' = aw.content
       \/ /\ aw.pc = "raised"
          /\ m' = [m EXCEPT !.pc = "raised"]
          /\ lastOut' = lastOut
    /\ UNCHANGED <<fsVars, rounds, normVars, auxVars, moreVars>>

(***************************************************************************)
(* Python values of a draft                                                *)
(***************************************************************************)
\* a key that is not in the dict
ABSENT == "<absent>"

NONE == "<None>"

Ints == {"<0>", "<7>"}

Strs == {"", "a@x", "Ann", "Hi", "B", "x"}

IsStr(a) == a \in Strs

\* bool(a) for None, a number or a string
AtomTruthy(a) == a \notin {ABSENT, NONE, "<0>", ""}

\* a recipient as the draft gives it: None, a number or a string (t = "atom"),
\* or a dict with any of the keys email, name and one other key (t = "dict");
\* t = "raise" stands for the exception a call ended with
Atom(a) == [t |-> "atom", a |-> a, email |-> ABSENT, name |-> ABSENT, extra |-> ABSENT]

DictR(e, n, x) == [t |-> "dict", a |-> ABSENT, email |-> e, name |-> n, extra |-> x]

RaiseR == [t |-> "raise", a |-> ABSENT, email |-> ABSENT, name |-> ABSENT, extra |-> ABSENT]

NoR == Atom(ABSENT)

\* the value of a draft key: no such key, one non-list value, or a list
FAbsent == [k |-> "absent", one |-> NoR, items |-> <<>>]

FOne(r) == [k |-> "one", one |-> r, items |-> <<>>]

FList(rs) == [k |-> "list", one |-> NoR, items |-> rs]

\* bool(v) of a dict value: {} and [] are false
Truthy(f) ==
    CASE f.k = "absent" -> FALSE
      [] f.k = "list" -> Len(f.items) > 0
      [] f.k = "one" ->
            IF f.one.t = "atom" THEN AtomTruthy(f.one.a)
            ELSE {f.one.email, f.one.name, f.one.extra} # {ABSENT}

\* dict.get(key, default): the default only when the key is missing
DictGet(d, key, default) == IF d[key] = ABSENT THEN default ELSE d[key]

\* keys of a draft dict, and the recipient keys among them
RecipientFields == <<"to", "cc", "bcc">>

OtherKeys == {"subject", "body", "extra_field"}

DraftKeys == {"to", "cc", "bcc", "from"} \cup OtherKeys

KeyPresent(d, key) == IF key \in OtherKeys THEN d[key] # ABSENT ELSE d[key].k # "absent"

Keys(d) == {key \in DraftKeys : KeyPresent(d, key)}

(***************************************************************************)
(* normalize_recipient                               email_utils.py:320-338 *)
(***************************************************************************)
\* a str gives {email: str, name: ""}; anything else is asked .get("email", "")
\* and .get("name", ""), which None and numbers do not have (AttributeError)
NormalizeRecipient(r) ==
    IF r.t = "atom" /\ IsStr(r.a) THEN DictR(r.a, "", ABSENT)
    ELSE IF r.t = "dict" THEN DictR(DictGet(r, "email", ""), DictGet(r, "name", ""), ABSENT)
         ELSE RaiseR

\* [normalize_recipient(r) for r in rs]
NormalizeEach(rs) == [i \in 1 .. Len(rs) |-> NormalizeRecipient(rs[i])]

RaisesIn(rs) == \E i \in 1 .. Len(rs) : NormalizeRecipient(rs[i]).t = "raise"

\* the calls the comprehension makes: it stops at the first one that raises
CallsIn(rs) ==
    {<<rs[i], NormalizeRecipient(rs[i])>> : i \in
        {j \in 1 .. Len(rs) : \A h \in 1 .. j - 1 : NormalizeRecipient(rs[h]).t # "raise"}}

(***************************************************************************)
(* normalize_draft                                   email_utils.py:341-375 *)
(***************************************************************************)
NoDraft == [to |-> FAbsent, cc |-> FAbsent, bcc |-> FAbsent, from |-> FAbsent,
            subject |-> ABSENT, body |-> ABSENT, extra_field |-> ABSENT]

\* pc: where the call is; arg: the caller's dict object; new: the dict object
\* draft.copy() made; normalized: the object the local name refers to;
\* input: the argument as it was at the call; calls: the normalize_recipient
\* calls made so far, each with what it gave
\* kind: what the argument is: a dict, a list, or a value without .copy()
\* (None, a number, a str)
NdIdle == [pc |-> "idle", kind |-> "dict", arg |-> NoDraft, new |-> NoDraft, normalized |-> "none",
           i |-> 0, input |-> NoDraft, calls |-> {}, result |-> "none"]

NdStart(d) == [NdIdle EXCEPT !.pc = "copy", !.arg = d, !.input = d]

\* the object the name normalized refers to
Normalized(n) == IF n.normalized = "arg" THEN n.arg ELSE n.new

\* normalized[key] = v
SetKey(n, key, v) ==
    IF n.normalized = "arg" THEN [n EXCEPT !.arg[key] = v] ELSE [n EXCEPT !.new[key] = v]

\* Alias: normalized = draft, the same object
DictCopyAlias(n) == [n EXCEPT !.normalized = "arg"]

\* KnownOnly: a dict built from the known keys, without the pass-through ones
DictCopyKnownOnly(n) ==
    [n EXCEPT !.new = [n.arg EXCEPT !.extra_field = ABSENT], !.normalized = "new"]

\* line 355: normalized = draft.copy(), a new dict with the same keys and values
DictCopy(n) == [n EXCEPT !.new = n.arg, !.normalized = "new"]

\* KeepAbsent: a field that is not in the draft is left out of the result
FieldValueKeepAbsent(f) ==
    IF f.k = "absent" THEN FAbsent
    ELSE IF Truthy(f)
         THEN IF f.k = "list"
              THEN IF RaisesIn(f.items) THEN FOne(RaiseR) ELSE FList(NormalizeEach(f.items))
              ELSE IF NormalizeRecipient(f.one).t = "raise" THEN FOne(RaiseR)
                   ELSE FList(<<NormalizeRecipient(f.one)>>)
         ELSE FList(<<>>)

\* WrapAlways: every truthy value wrapped, a list too, without the isinstance test
FieldValueWrapAlways(f) ==
    IF Truthy(f)
    THEN IF f.k = "list" \/ NormalizeRecipient(f.one).t = "raise" THEN FOne(RaiseR)
         ELSE FList(<<NormalizeRecipient(f.one)>>)
    ELSE FList(<<>>)

\* lines 359-366 for one field of to, cc, bcc: the value stored, or RaiseR
FieldValue(f) ==
    IF Truthy(f)
    THEN IF f.k = "list"
         THEN IF RaisesIn(f.items) THEN FOne(RaiseR) ELSE FList(NormalizeEach(f.items))
         ELSE IF NormalizeRecipient(f.one).t = "raise" THEN FOne(RaiseR)
              ELSE FList(<<NormalizeRecipient(f.one)>>)
    ELSE FList(<<>>)

FieldCalls(f) ==
    IF Truthy(f)
    THEN IF f.k = "list" THEN CallsIn(f.items) ELSE {<<f.one, NormalizeRecipient(f.one)>>}
    ELSE {}

\* lines 370-373: the first element of a list, or the value itself
FromValue(f) ==
    IF f.k = "list" THEN NormalizeRecipient(f.items[1]) ELSE NormalizeRecipient(f.one)

\* line 355; None, a number and a str have no copy() (AttributeError)
NDCopy ==
    /\ nd.pc = "copy"
    /\ nd' = IF nd.kind = "scalar" THEN [nd EXCEPT !.pc = "raised"]
             ELSE [DictCopy(nd) EXCEPT !.pc = "fields", !.i = 1]
    /\ UNCHANGED <<fsVars, mainVars, auxVars, moreVars>>

\* one turn of the loop of line 358; a list takes no str index (TypeError at
\* line 359 or 366)
NDField ==
    /\ nd.pc = "fields"
    /\ LET field == RecipientFields[nd.i]
           f == nd.arg[field]
           v == FieldValue(f)
           n1 == [nd EXCEPT !.calls = @ \cup FieldCalls(f)]
       IN  nd' = IF nd.kind = "list" THEN [nd EXCEPT !.pc = "raised"]
                 ELSE IF v = FOne(RaiseR) THEN [n1 EXCEPT !.pc = "raised"]
                 ELSE [SetKey(n1, field, v) EXCEPT
                         !.pc = IF nd.i = Len(RecipientFields) THEN "from" ELSE "fields",
                         !.i = nd.i + 1]
    /\ UNCHANGED <<fsVars, mainVars, auxVars, moreVars>>

\* lines 369-373
NDFrom ==
    /\ nd.pc = "from"
    /\ LET f == nd.arg["from"] IN
       nd' = IF Truthy(f)
             THEN LET r == IF f.k = "list" THEN f.items[1] ELSE f.one
                      n1 == [nd EXCEPT !.calls = @ \cup {<<r, FromValue(f)>>}]
                  IN  IF FromValue(f).t = "raise" THEN [n1 EXCEPT !.pc = "raised"]
                      ELSE [SetKey(n1, "from", FList(<<FromValue(f)>>)) EXCEPT !.pc = "return"]
             ELSE [nd EXCEPT !.pc = "return"]
    /\ UNCHANGED <<fsVars, mainVars, auxVars, moreVars>>

\* line 375: return normalized
NDReturn ==
    /\ nd.pc = "return"
    /\ nd' = [nd EXCEPT !.pc = "returned", !.result = nd.normalized]
    /\ UNCHANGED <<fsVars, mainVars, auxVars, moreVars>>

\* the dict normalize_draft returned
Result == IF nd.result = "arg" THEN nd.arg ELSE nd.new

(***************************************************************************)
(* parse_draft_response                              draft-email.py:192-198 *)
(***************************************************************************)
\* a response text: leading whitespace, a core that neither starts nor ends
\* with whitespace, trailing whitespace
Leads == {"", "\n"}

Trails == {"", " \n"}

Cores ==
    {"Sure, here it is", "", "{\"body\": \"B\"", "7", "null", "\"Hi\"", "[]", "{}",
     "{\"body\": \"B\", \"to\": [\"a@x\"]}", "{\"subject\": \"Hi\", \"to\": \"a@x\"}"}

Responses == [lead : Leads, core : Cores, trail : Trails]

\* the text as one string
Text(r) == r.lead \o r.core \o r.trail

\* response.strip()
Strip(r) == r.core

JsonError == [kind |-> "error", d |-> NoDraft]

JsonDict(d) == [kind |-> "dict", d |-> d]

\* json.loads of a stripped text: a dict, a list, a value that is neither
\* (number, string, null), or JSONDecodeError
JsonLoads(t) ==
    CASE t = "{}" -> JsonDict(NoDraft)
      [] t = "{\"body\": \"B\", \"to\": [\"a@x\"]}" ->
            JsonDict([NoDraft EXCEPT !.body = "B", !.to = FList(<<Atom("a@x")>>)])
      [] t = "{\"subject\": \"Hi\", \"to\": \"a@x\"}" ->
            JsonDict([NoDraft EXCEPT !.subject = "Hi", !.to = FOne(Atom("a@x"))])
      [] t = "[]" -> [kind |-> "list", d |-> NoDraft]
      [] t \in {"7", "null", "\"Hi\""} -> [kind |-> "scalar", d |-> NoDraft]
      [] OTHER -> JsonError

\* the fallback dict of line 198 with a given body
Fallback(body) ==
    JsonDict([NoDraft EXCEPT !.body = body, !.to = FList(<<>>), !.cc = FList(<<>>),
                             !.subject = ""])

\* Stripped: the fallback body taken from the stripped text
ParseDraftResponseStripped(r) ==
    IF JsonLoads(Strip(r)) = JsonError THEN Fallback(Strip(r)) ELSE JsonLoads(Strip(r))

\* lines 195-198
ParseDraftResponse(r) ==
    IF JsonLoads(Strip(r)) = JsonError THEN Fallback(Text(r)) ELSE JsonLoads(Strip(r))

PrIdle == [pc |-> "idle", response |-> [lead |-> "", core |-> "", trail |-> ""],
           draft |-> [kind |-> "none", d |-> NoDraft]]

\* lines 307-308: draft = parse_draft_response(raw_response), and normalize_draft
\* is called with it
PParse ==
    /\ pr.pc = "parse"
    /\ pr' = [pr EXCEPT !.pc = "normalize", !.draft = ParseDraftResponse(pr.response)]
    /\ nd' = [NdStart(ParseDraftResponse(pr.response).d) EXCEPT
                 !.kind = ParseDraftResponse(pr.response).kind]
    /\ UNCHANGED <<fsVars, mainVars, fmt, cm, hk, moreVars>>

(***************************************************************************)
(* format_participant                                email_utils.py:278-299 *)
(***************************************************************************)
MaxMsgs == 3

\* a participant dict: each of name and email missing, null or a string
Participants == [name : {ABSENT, NONE, "", "Ann", "a@x"}, email : {ABSENT, NONE, "", "a@x"}]

\* str(v) inside an f-string
FStr(v) == IF v = NONE THEN "None" ELSE v

\* Always: the name shown whenever there is one, equal to the email or not
FormatParticipantAlways(p) ==
    IF AtomTruthy(DictGet(p, "name", ""))
    THEN FStr(DictGet(p, "name", "")) \o " <" \o FStr(DictGet(p, "email", "")) \o ">"
    ELSE DictGet(p, "email", "")

\* lines 294-299
FormatParticipant(p) ==
    LET name == DictGet(p, "name", "")
        email == DictGet(p, "email", "")
    IN  IF AtomTruthy(name) /\ name # email
        THEN FStr(name) \o " <" \o FStr(email) \o ">"
        ELSE email

(***************************************************************************)
(* format_thread                                       draft-email.py:67-79 *)
(***************************************************************************)
\* a message: id is its place in the caller's list; has: it has a date key
Dates == 0 .. 2

Msg(id, has, date) == [id |-> id, has |-> has, date |-> date]

MsgShapes == {<<FALSE, 0>>} \cup {<<TRUE, d>> : d \in Dates}

MsgLists ==
    UNION {{[i \in 1 .. n |-> Msg(i, f[i][1], f[i][2])] : f \in [1 .. n -> MsgShapes]} :
             n \in 0 .. MaxMsgs}

\* key=lambda m: m.get("date", 0)
DateKey(msg) == IF msg.has THEN msg.date ELSE 0

RECURSIVE InsertBeforeEqual(_, _)
\* BeforeEqual: a message put in front of the earlier ones of the same date
InsertBeforeEqual(x, s) ==
    IF s = <<>> THEN <<x>>
    ELSE IF DateKey(s[Len(s)]) < DateKey(x) THEN Append(s, x)
         ELSE Append(InsertBeforeEqual(x, SubSeq(s, 1, Len(s) - 1)), s[Len(s)])

RECURSIVE Insert(_, _)
\* x put into the sorted s behind every message whose key is not greater
Insert(x, s) ==
    IF s = <<>> THEN <<x>>
    ELSE IF DateKey(s[Len(s)]) <= DateKey(x) THEN Append(s, x)
         ELSE Append(Insert(x, SubSeq(s, 1, Len(s) - 1)), s[Len(s)])

RECURSIVE Sorted(_)
\* line 70: sorted(messages, key=...), a new list, stable
Sorted(msgs) ==
    IF msgs = <<>> THEN <<>>
    ELSE Insert(msgs[Len(msgs)], Sorted(SubSeq(msgs, 1, Len(msgs) - 1)))

\* line 75
Label(i, n) == "--- Message " \o ToString(i) \o " of " \o ToString(n) \o " ---"

\* lines 74-77: the label and the message of each turn of the loop
FormatThread(msgs) ==
    [i \in 1 .. Len(Sorted(msgs)) |->
        [label |-> Label(i, Len(Sorted(msgs))), msg |-> Sorted(msgs)[i]]]

\* p, messages: the arguments; input: messages as it was at the call;
\* pout, out: what the calls returned
FmtIdle == [ppc |-> "idle", p |-> [name |-> ABSENT, email |-> ABSENT], pout |-> "",
            tpc |-> "idle", messages |-> <<>>, input |-> <<>>, out |-> <<>>]

FParticipant ==
    /\ fmt.ppc = "call"
    /\ fmt' = [fmt EXCEPT !.ppc = "done", !.pout = FormatParticipant(fmt.p)]
    /\ UNCHANGED <<fsVars, mainVars, normVars, pr, cm, hk, moreVars>>

FThread ==
    /\ fmt.tpc = "call"
    /\ fmt' = [fmt EXCEPT !.tpc = "done", !.out = FormatThread(fmt.messages)]
    /\ UNCHANGED <<fsVars, mainVars, normVars, pr, cm, hk, moreVars>>

(***************************************************************************)
(* clean_messages                                    email_utils.py:174-223 *)
(***************************************************************************)
MaxIds == 41

BATCH_SIZE == 20

\* n message ids, each named by its place in the list
Ids(n) == [k \in 1 .. n |-> k]

Min(a, b) == IF a <= b THEN a ELSE b

\* OneMore: a slice that also takes the first id of the next batch
BatchOneMore(ids, i) == SubSeq(ids, i + 1, Min(i + BATCH_SIZE + 1, Len(ids)))

\* line 204: message_ids[i : i + BATCH_SIZE]
Batch(ids, i) == SubSeq(ids, i + 1, Min(i + BATCH_SIZE, Len(ids)))

\* what a request can come to: a RequestException, a response that is not ok,
\* or a body whose data is a message per id, only the first one, or nothing
\* (an empty list or no data key)
Replies == {"request_exception", "not_ok", "all", "first", "none"}

Data(reply, batch) ==
    CASE reply = "all" -> batch
      [] reply = "first" -> SubSeq(batch, 1, 1)
      [] OTHER -> <<>>

\* requests: the message_id lists sent so far; datas: the data of the ok
\* responses so far; result: what the call returned
CmIdle == [pc |-> "idle", message_ids |-> <<>>, i |-> 0, all_messages |-> <<>>,
           requests |-> <<>>, datas |-> <<>>, failed |-> FALSE, result |-> <<>>]

\* one turn of the loop of line 203
CMBatch ==
    /\ cm.pc = "loop"
    /\ cm.i < Len(cm.message_ids)
    /\ \E reply \in Replies :
          LET batch == Batch(cm.message_ids, cm.i)
              sent == [cm EXCEPT !.requests = Append(@, batch)]
          IN  cm' = IF reply \in {"request_exception", "not_ok"}
                    THEN [sent EXCEPT !.pc = "exit1", !.failed = TRUE]
                    ELSE [sent EXCEPT !.all_messages = @ \o Data(reply, batch),
                                      !.datas = Append(@, Data(reply, batch)),
                                      !.i = @ + BATCH_SIZE]
    /\ UNCHANGED <<fsVars, mainVars, normVars, pr, fmt, hk, moreVars>>

\* line 223: the range is used up
CMReturn ==
    /\ cm.pc = "loop"
    /\ cm.i >= Len(cm.message_ids)
    /\ cm' = [cm EXCEPT !.pc = "returned", !.result = cm.all_messages]
    /\ UNCHANGED <<fsVars, mainVars, normVars, pr, fmt, hk, moreVars>>

(***************************************************************************)
(* pre-commit-checks.py: the hook process            pre-commit-checks.py:256 *)
(***************************************************************************)
\* what the tests of lines 266-267 and 286 find in the command string
Commands == [commit : BOOLEAN, push : BOOLEAN, origin : BOOLEAN, main : BOOLEAN,
             master : BOOLEAN]

NoCommand == [commit |-> FALSE, push |-> FALSE, origin |-> FALSE, main |-> FALSE,
              master |-> FALSE]

\* the branch the repository is on
Branches == {"main", "master", "feature"}

\* git branch --show-current: prints the branch, prints nothing (a git that
\* fails on the option), or subprocess.run raises (timeout, no git)
GitReplies == {"ok", "empty", "raised"}

\* lines 27-39
GetCurrentBranch(branch, reply) ==
    CASE reply = "ok" -> branch
      [] reply = "empty" -> ""
      [] OTHER -> NONE

\* a staged file is the sequence of the components of its path
StagedLists ==
    {<<>>, <<<<".beads", "issues.jsonl">>>>, <<<<"src", "a.py">>>>,
     <<<<".beads", "issues.jsonl">>, <<"src", "a.py">>>>, <<<<".beadsx", "b">>>>}

\* lines 42-54: the list git prints, or [] when subprocess.run raises
GetStagedFiles(staged, raised) == IF raised THEN <<>> ELSE staged

\* f.startswith('.beads/')
StartsWithBeads(f) == Len(f) > 1 /\ f[1] = ".beads"

\* Vacuous: all() alone, which an empty list satisfies
IsBeadsOnlyCommitVacuous(files) == \A i \in 1 .. Len(files) : StartsWithBeads(files[i])

\* lines 57-61
IsBeadsOnlyCommit(files) ==
    /\ files # <<>>
    /\ \A i \in 1 .. Len(files) : StartsWithBeads(files[i])

\* the four checks in the order of lines 303-312
Checks == <<"check_deno_tests", "check_deno_lint", "check_npm_tests", "check_npm_lint">>

\* what a check comes to: nothing to run or tool not found, run and passed
\* (all three return True), or failed or timed out (returns False)
CheckOutcomes == {"skipped", "passed", "failed"}

CheckReturns(o) == o # "failed"

\* LastOnly: the verdict taken from the last check alone
VerdictLastOnly(results) == IF results[Len(results)] THEN 0 ELSE 2

\* lines 301-320: all_passed, and the exit status it gives
Verdict(results) == IF \A k \in 1 .. Len(results) : results[k] THEN 0 ELSE 2

\* input: stdin parses as JSON or not; command: the command of the tool
\* input; branch, staged: the state of the repository; ran, results: the
\* checks called so far and what each returned; exit: the exit status, -1
\* while running
HkIdle == [pc |-> "idle", input |-> "json", command |-> NoCommand, branch |-> "feature",
           staged |-> <<>>, current_branch |-> "<unset>", staged_files |-> <<>>,
           ran |-> <<>>, results |-> <<>>, exit |-> -1]

SysExit(h, code) == [h EXCEPT !.pc = "exit", !.exit = code]

IsCommit(h) == h.command.commit

IsPush(h) == h.command.push /\ h.command.origin

\* lines 258-261
HRead ==
    /\ hk.pc = "read"
    /\ hk' = IF hk.input = "json" THEN [hk EXCEPT !.pc = "classify"] ELSE SysExit(hk, 0)
    /\ UNCHANGED <<fsVars, mainVars, normVars, pr, fmt, cm, moreVars>>

\* lines 263-270
HClassify ==
    /\ hk.pc = "classify"
    /\ hk' = IF IsCommit(hk) \/ IsPush(hk) THEN [hk EXCEPT !.pc = "branch"] ELSE SysExit(hk, 0)
    /\ UNCHANGED <<fsVars, mainVars, normVars, pr, fmt, cm, moreVars>>

\* line 272
HBranch ==
    /\ hk.pc = "branch"
    /\ \E reply \in GitReplies :
          hk' = [hk EXCEPT !.pc = "block", !.current_branch = GetCurrentBranch(hk.branch, reply)]
    /\ UNCHANGED <<fsVars, mainVars, normVars, pr, fmt, cm, moreVars>>

\* lines 275-295
HBlock ==
    /\ hk.pc = "block"
    /\ hk' = IF hk.current_branch \in {"main", "master"} /\ IsCommit(hk) THEN SysExit(hk, 2)
             ELSE IF /\ hk.current_branch \in {"main", "master"}
                     /\ IsPush(hk)
                     /\ (hk.command.main \/ hk.command.master)
                  THEN SysExit(hk, 2)
                  ELSE IF IsCommit(hk) THEN [hk EXCEPT !.pc = "staged"]
                       ELSE SysExit(hk, 0)
    /\ UNCHANGED <<fsVars, mainVars, normVars, pr, fmt, cm, moreVars>>

\* lines 297-299
HStaged ==
    /\ hk.pc = "staged"
    /\ \E raised \in BOOLEAN :
          LET files == GetStagedFiles(hk.staged, raised)
              h == [hk EXCEPT !.staged_files = files]
          IN  hk' = IF IsBeadsOnlyCommit(files) THEN SysExit(h, 0)
                    ELSE [h EXCEPT !.pc = "checks"]
    /\ UNCHANGED <<fsVars, mainVars, normVars, pr, fmt, cm, moreVars>>

\* lines 304-312: the next check is called, whatever the earlier ones returned
HCheck ==
    /\ hk.pc = "checks"
    /\ Len(hk.ran) < Len(Checks)
    /\ \E o \in CheckOutcomes :
          hk' = [hk EXCEPT !.ran = Append(@, Checks[Len(hk.ran) + 1]),
                           !.results = Append(@, CheckReturns(o))]
    /\ UNCHANGED <<fsVars, mainVars, normVars, pr, fmt, cm, moreVars>>

\* lines 314-320
HVerdict ==
    /\ hk.pc = "checks"
    /\ Len(hk.ran) = Len(Checks)
    /\ hk' = SysExit(hk, Verdict(hk.results))
    /\ UNCHANGED <<fsVars, mainVars, normVars, pr, fmt, cm, moreVars>>

(***************************************************************************)
(* Display-width text engine and panel line          spec sections 4.2, 4.3 *)
(***************************************************************************)
MaxText == 4

MaxWidth == 6

MaxPanel == 10

\* glyphs: "a" is one column wide, "E" stands for a double-width glyph (an
\* emoji), "." is a dot of the ellipsis, "|" the vertical border
Glyphs == {"a", "E"}

Texts == UNION {[1 .. n -> Glyphs] : n \in 0 .. MaxText}

GlyphWidth(c) == IF c = "E" THEN 2 ELSE 1

RECURSIVE DisplayWidth(_)
\* displayWidth: the sum of the columns of the characters
DisplayWidth(s) == IF s = <<>> THEN 0 ELSE GlyphWidth(Head(s)) + DisplayWidth(Tail(s))

RECURSIVE Walk(_, _)
\* the characters taken while the accumulated width stays within the budget;
\* a character is taken only if it fits whole
Walk(s, budget) ==
    IF s = <<>> \/ GlyphWidth(Head(s)) > budget THEN <<>>
    ELSE <<Head(s)>> \o Walk(Tail(s), budget - GlyphWidth(Head(s)))

\* truncate(text, maxWidth)
Truncate(text, maxWidth) ==
    IF DisplayWidth(text) <= maxWidth THEN text
    ELSE Walk(text, maxWidth - 3) \o <<".", ".", ".">>

Spaces(n) == [i \in 1 .. n |-> " "]

\* line(text, W): border, space, the text padded to W - 4, space, border
Line(text, W) ==
    LET shown == IF DisplayWidth(text) > W - 4 THEN Truncate(text, W - 4) ELSE text
    IN  <<"|", " ">> \o shown \o Spaces((W - 4) - DisplayWidth(shown)) \o <<" ", "|">>

\* a panel has room for its two borders and two spaces
PanelWidths == 4 .. MaxPanel

TrIdle == [tpc |-> "idle", text |-> <<>>, maxWidth |-> 0, tout |-> <<>>,
           lpc |-> "idle", W |-> 4, lout |-> <<>>]

TTruncate ==
    /\ tr.tpc = "call"
    /\ tr' = [tr EXCEPT !.tpc = "done", !.tout = Truncate(tr.text, tr.maxWidth)]
    /\ UNCHANGED <<fsVars, mainVars, normVars, auxVars, ul, dn, rt>>

TLine ==
    /\ tr.lpc = "call"
    /\ tr' = [tr EXCEPT !.lpc = "done", !.lout = Line(tr.text, tr.W)]
    /\ UNCHANGED <<fsVars, mainVars, normVars, auxVars, ul, dn, rt>>

(***************************************************************************)
(* update_thread_labels                              email_utils.py:226-275 *)
(***************************************************************************)
Labels == {"L1", "L2"}

\* the add and remove arguments: label id lists, None (the default) read as []
AddLists == {<<>>, <<"L1">>, <<"L1", "L2">>, <<"L2", "L2">>}

RemoveLists == {<<>>, <<"L1">>, <<"L2", "L1">>}

Range(s) == {s[i] : i \in 1 .. Len(s)}

RECURSIVE SetToList(_)
\* list(a set): its elements in some order
SetToList(S) == IF S = {} THEN <<>> ELSE LET x == CHOOSE x \in S : TRUE IN <<x>> \o SetToList(S \ {x})

RECURSIVE Filter(_, _)
\* [label for label in add if label not in kept]
Filter(add, kept) ==
    IF add = <<>> THEN <<>>
    ELSE (IF Head(add) \in kept THEN <<>> ELSE <<Head(add)>>) \o Filter(Tail(add), kept)

\* RemoveLast: the labels added first and the removal applied to the sum
NewLabelsRemoveLast(current, add, remove) ==
    SetToList((current \cup Range(add)) \ Range(remove))

\* lines 263-264: the current labels without the removed ones, then the added
\* ones that are not among them
NewLabels(current, add, remove) ==
    SetToList(current \ Range(remove)) \o Filter(add, current \ Range(remove))

\* log: the requests about messages made so far, a GET with the labels it
\* gave or a PUT with the labels it carried
UlIdle == [pc |-> "idle", add |-> <<>>, remove |-> <<>>, message_ids |-> <<>>, k |-> 0,
           current_labels |-> {}, log |-> <<>>]

\* lines 250-254: get_thread, which exits on a failed request, and the test of
\* message_ids
ULThread ==
    /\ ul.pc = "thread"
    /\ \/ ul' = [ul EXCEPT !.pc = "exit1"]
       \/ ul' = [ul EXCEPT !.pc = IF ul.message_ids = <<>> THEN "returned" ELSE "get", !.k = 1]
    /\ UNCHANGED <<fsVars, mainVars, normVars, auxVars, tr, dn, rt>>

\* lines 259-260: nylas_get of the message; it exits on a failed request
ULGet ==
    /\ ul.pc = "get"
    /\ \/ ul' = [ul EXCEPT !.pc = "exit1"]
       \/ \E current \in SUBSET Labels :
             ul' = [ul EXCEPT !.pc = "put", !.current_labels = current,
                      !.log = Append(@, [op |-> "GET", id |-> ul.message_ids[ul.k],
                                         labels |-> current])]
    /\ UNCHANGED <<fsVars, mainVars, normVars, auxVars, tr, dn, rt>>

\* lines 263-275: the new labels are computed and PUT; nylas_put exits on a
\* failed request
ULPut ==
    /\ ul.pc = "put"
    /\ \E ok \in BOOLEAN :
          LET sent == [ul EXCEPT !.log = Append(@,
                         [op |-> "PUT", id |-> ul.message_ids[ul.k],
                          labels |-> Range(NewLabels(ul.current_labels, ul.add, ul.remove))])]
          IN  ul' = IF ~ok THEN [sent EXCEPT !.pc = "exit1"]
                    ELSE IF ul.k = Len(ul.message_ids) THEN [sent EXCEPT !.pc = "returned"]
                         ELSE [sent EXCEPT !.pc = "get", !.k = @ + 1]
    /\ UNCHANGED <<fsVars, mainVars, normVars, auxVars, tr, dn, rt>>

(***************************************************************************)
(* check_deno_tests, check_deno_lint          pre-commit-checks.py:68-155   *)
(***************************************************************************)
MaxFunctions == 2

\* the places a deno.json is looked for: the project root, supabase/functions
\* and one directory per entry of supabase/functions (named by number)
RootDir == "root"

FunctionsDir == "supabase/functions"

\* os.listdir(functions_dir) in the order it gives: the entries that are
\* kept are those with a deno.json file
Listings == UNION {[1 .. n -> BOOLEAN] : n \in 0 .. MaxFunctions}

FunctionDir(i) == <<FunctionsDir, i>>

\* lines 74-85: the two fixed paths, then the function directories that have
\* a deno.json; without a supabase/functions directory only the fixed ones
DenoPaths(isdir, listing) ==
    <<<<RootDir>>, <<FunctionsDir>>>> \o
        (IF isdir
         THEN SelectSeq([i \in 1 .. Len(listing) |-> FunctionDir(i)],
                        LAMBDA d : listing[d[2]])
         ELSE <<>>)

\* os.path.exists(deno_path)
Exists(d, loc) ==
    CASE loc = <<RootDir>> -> d.root
      [] loc = <<FunctionsDir>> -> d.isdir /\ d.sf
      [] OTHER -> d.isdir /\ d.listing[loc[2]]

\* what running deno comes to
DenoOutcomes == {"passed", "failed", "not_found", "timeout"}

\* AfterFailure: a failed run is followed by the next deno.json location
ReturnsAfterRunAfterFailure(o) == o \in {"passed", "not_found"}

\* lines 97-109: every outcome of the run ends the call
ReturnsAfterRun(o) == o \in DenoOutcomes

\* the value returned after a run: False for a failure or a timeout
RunResult(o) == o \in {"passed", "not_found"}

\* fn: which of the two functions; root, sf, isdir, listing: the files;
\* deno_paths: the list built; k: the place in it; examined: the paths
\* os.path.exists was asked about; runs: the directories deno ran in, each
\* with its outcome
DnIdle == [pc |-> "idle", fn |-> "check_deno_tests", root |-> FALSE, sf |-> FALSE,
           isdir |-> FALSE, listing |-> <<>>, deno_paths |-> <<>>, k |-> 0,
           examined |-> <<>>, runs |-> <<>>, ret |-> "none"]

\* lines 70-85
DBuild ==
    /\ dn.pc = "build"
    /\ dn' = [dn EXCEPT !.pc = "loop", !.deno_paths = DenoPaths(dn.isdir, dn.listing), !.k = 1]
    /\ UNCHANGED <<fsVars, mainVars, normVars, auxVars, tr, ul, rt>>

\* one turn of the loop of line 87: the path is tested, and deno is run in
\* its directory if it exists
DLoop ==
    /\ dn.pc = "loop"
    /\ dn.k <= Len(dn.deno_paths)
    /\ LET loc == dn.deno_paths[dn.k]
           seen == [dn EXCEPT !.examined = Append(@, loc)]
       IN  IF Exists(dn, loc)
           THEN \E o \in DenoOutcomes :
                   dn' = IF ReturnsAfterRun(o)
                         THEN [seen EXCEPT !.runs = Append(@, <<loc, o>>), !.pc = "returned",
                                           !.ret = IF RunResult(o) THEN "True" ELSE "False"]
                         ELSE [seen EXCEPT !.runs = Append(@, <<loc, o>>), !.k = @ + 1]
           ELSE dn' = [seen EXCEPT !.k = @ + 1]
    /\ UNCHANGED <<fsVars, mainVars, normVars, auxVars, tr, ul, rt>>

\* line 110 (155): no deno.json was found
DNone ==
    /\ dn.pc = "loop"
    /\ dn.k > Len(dn.deno_paths)
    /\ dn' = [dn EXCEPT !.pc = "returned", !.ret = "True"]
    /\ UNCHANGED <<fsVars, mainVars, normVars, auxVars, tr, ul, rt>>

(***************************************************************************)
(* A revision round: the result of normalize_draft normalized again        *)
(***************************************************************************)
\* round: which of the two calls is running; first: what the first returned
RtIdle == [round |-> 0, first |-> NoDraft]

\* the dict the first call returned is the argument of the second call
NDAgain ==
    /\ nd.pc = "returned"
    /\ rt.round = 1
    /\ rt' = [round |-> 2, first |-> Result]
    /\ nd' = NdStart(Result)
    /\ UNCHANGED <<fsVars, mainVars, auxVars, tr, ul, dn>>

(***************************************************************************)
(* Specifications                                                          *)
(***************************************************************************)

\* the directory of the path is empty, or holds a complete earlier file
InitFs ==
    /\ path \in Paths
    /\ \E c \in Contents \cup {NoFile} :
          /\ dir = [e \in Entries |-> IF e = Resolve(path) /\ c # NoFile THEN 1 ELSE 0]
          /\ inode = [i \in Inodes |-> IF i = 1 /\ c # NoFile THEN c ELSE <<>>]
    /\ aw = AwIdle
    /\ rd = RdIdle
    /\ calls = 0

InitMainIdle ==
    /\ m = MIdle
    /\ rounds = 0
    /\ lastOut = Visible(path)

InitNormIdle == nd = NdIdle

InitMoreIdle ==
    /\ tr = TrIdle
    /\ ul = UlIdle
    /\ dn = DnIdle
    /\ rt = RtIdle

InitAuxIdle ==
    /\ pr = PrIdle
    /\ fmt = FmtIdle
    /\ cm = CmIdle
    /\ hk = HkIdle

\* atomic_write calls against a concurrent reader
Init == InitFs /\ InitMainIdle /\ InitNormIdle /\ InitAuxIdle /\ InitMoreIdle

Next ==
    \/ \E c \in Contents : AWCall(c)
    \/ AWCreate
    \/ AWWrite
    \/ AWClose
    \/ AWReplace
    \/ AWFailCreate
    \/ AWFailWrite
    \/ AWFailReplace
    \/ ROpen
    \/ RRead

Spec == Init /\ [][Next]_vars

\* one normalize_draft call on a draft drawn from the shapes a response can have
RSamples ==
    {Atom("a@x"), Atom(""), Atom(NONE), Atom("<7>"), Atom("<0>"),
     DictR(ABSENT, ABSENT, ABSENT), DictR("a@x", "Ann", ABSENT),
     DictR("a@x", ABSENT, "x"), DictR("a@x", NONE, ABSENT)}

ListsUpTo(n) == UNION {[1 .. len -> RSamples] : len \in 0 .. n}

FRich == {FAbsent} \cup {FOne(r) : r \in RSamples} \cup {FList(rs) : rs \in ListsUpTo(MaxList)}

FSmall == {FAbsent, FOne(Atom("a@x")), FList(<<Atom("a@x"), DictR("a@x", "Ann", ABSENT)>>)}

OtherSamples ==
    {[subject |-> "Hi", body |-> "B", extra_field |-> ABSENT],
     [subject |-> ABSENT, body |-> "B", extra_field |-> "x"]}

DraftInputs ==
    {[to |-> IF rich = "to" THEN fr ELSE f1,
      cc |-> IF rich = "cc" THEN fr ELSE f2,
      bcc |-> IF rich = "bcc" THEN fr ELSE f3,
      from |-> IF rich = "from" THEN fr ELSE f1,
      subject |-> o.subject, body |-> o.body, extra_field |-> o.extra_field] :
        rich \in {"to", "cc", "bcc", "from"}, fr \in FRich,
        f1 \in FSmall, f2 \in FSmall, f3 \in FSmall, o \in OtherSamples}

InitNorm ==
    /\ path = [dirname |-> "", base |-> TargetBase]
    /\ dir = [e \in Entries |-> 0]
    /\ inode = [i \in Inodes |-> <<>>]
    /\ aw = AwIdle
    /\ rd = RdIdle
    /\ calls = 0
    /\ InitMainIdle
    /\ InitMoreIdle
    /\ InitAuxIdle
    /\ \E d \in DraftInputs : nd = NdStart(d)

NextNorm ==
    \/ NDCopy
    \/ NDField
    \/ NDFrom
    \/ NDReturn

SpecNorm == InitNorm /\ [][NextNorm]_vars

\* one response text through parse_draft_response and normalize_draft
InitParse ==
    /\ path = [dirname |-> "", base |-> TargetBase]
    /\ dir = [e \in Entries |-> 0]
    /\ inode = [i \in Inodes |-> <<>>]
    /\ aw = AwIdle
    /\ rd = RdIdle
    /\ calls = 0
    /\ InitMainIdle
    /\ InitMoreIdle
    /\ InitNormIdle
    /\ \E r \in Responses : pr = [PrIdle EXCEPT !.pc = "parse", !.response = r]
    /\ fmt = FmtIdle
    /\ cm = CmIdle
    /\ hk = HkIdle

NextParse ==
    \/ PParse
    \/ NDCopy
    \/ NDField
    \/ NDFrom
    \/ NDReturn

SpecParse == InitParse /\ [][NextParse]_vars

\* one format_participant call and one format_thread call
InitFormat ==
    /\ path = [dirname |-> "", base |-> TargetBase]
    /\ dir = [e \in Entries |-> 0]
    /\ inode = [i \in Inodes |-> <<>>]
    /\ aw = AwIdle
    /\ rd = RdIdle
    /\ calls = 0
    /\ InitMainIdle
    /\ InitMoreIdle
    /\ InitNormIdle
    /\ pr = PrIdle
    /\ \E p \in Participants, msgs \in MsgLists :
          fmt = [FmtIdle EXCEPT !.ppc = "call", !.p = p,
                                !.tpc = "call", !.messages = msgs, !.input = msgs]
    /\ cm = CmIdle
    /\ hk = HkIdle

NextFormat ==
    \/ FParticipant
    \/ FThread

SpecFormat == InitFormat /\ [][NextFormat]_vars

\* one clean_messages call on a list of up to MaxIds ids
InitClean ==
    /\ path = [dirname |-> "", base |-> TargetBase]
    /\ dir = [e \in Entries |-> 0]
    /\ inode = [i \in Inodes |-> <<>>]
    /\ aw = AwIdle
    /\ rd = RdIdle
    /\ calls = 0
    /\ InitMainIdle
    /\ InitMoreIdle
    /\ InitNormIdle
    /\ pr = PrIdle
    /\ fmt = FmtIdle
    /\ \E n \in 0 .. MaxIds : cm = [CmIdle EXCEPT !.pc = "loop", !.message_ids = Ids(n)]
    /\ hk = HkIdle

NextClean ==
    \/ CMBatch
    \/ CMReturn

SpecClean == InitClean /\ [][NextClean]_vars

\* one run of the hook on a tool input, in a repository on some branch
InitHook ==
    /\ path = [dirname |-> "", base |-> TargetBase]
    /\ dir = [e \in Entries |-> 0]
    /\ inode = [i \in Inodes |-> <<>>]
    /\ aw = AwIdle
    /\ rd = RdIdle
    /\ calls = 0
    /\ InitMainIdle
    /\ InitMoreIdle
    /\ InitNormIdle
    /\ pr = PrIdle
    /\ fmt = FmtIdle
    /\ cm = CmIdle
    /\ \E input \in {"json", "junk"}, c \in Commands, b \in Branches, st \in StagedLists :
          hk = [HkIdle EXCEPT !.pc = "read", !.input = input,
                              !.command = IF input = "json" THEN c ELSE NoCommand,
                              !.branch = b, !.staged = st]

NextHook ==
    \/ HRead
    \/ HClassify
    \/ HBranch
    \/ HBlock
    \/ HStaged
    \/ HCheck
    \/ HVerdict

SpecHook == InitHook /\ [][NextHook]_vars

\* one truncate call and one line call on a drawn text
InitPanel ==
    /\ path = [dirname |-> "", base |-> TargetBase]
    /\ dir = [e \in Entries |-> 0]
    /\ inode = [i \in Inodes |-> <<>>]
    /\ aw = AwIdle
    /\ rd = RdIdle
    /\ calls = 0
    /\ InitMainIdle
    /\ InitNormIdle
    /\ InitAuxIdle
    /\ \E text \in Texts, w \in 0 .. MaxWidth, pw \in PanelWidths :
          tr = [TrIdle EXCEPT !.tpc = "call", !.lpc = "call", !.text = text,
                              !.maxWidth = w, !.W = pw]
    /\ ul = UlIdle
    /\ dn = DnIdle
    /\ rt = RtIdle

NextPanel ==
    \/ TTruncate
    \/ TLine

SpecPanel == InitPanel /\ [][NextPanel]_vars

\* normalize_draft on a drawn draft, then again on what it returned
InitRenorm ==
    /\ path = [dirname |-> "", base |-> TargetBase]
    /\ dir = [e \in Entries |-> 0]
    /\ inode = [i \in Inodes |-> <<>>]
    /\ aw = AwIdle
    /\ rd = RdIdle
    /\ calls = 0
    /\ InitMainIdle
    /\ InitAuxIdle
    /\ \E d \in DraftInputs : nd = NdStart(d)
    /\ tr = TrIdle
    /\ ul = UlIdle
    /\ dn = DnIdle
    /\ rt = [RtIdle EXCEPT !.round = 1]

NextRenorm ==
    \/ NDCopy
    \/ NDField
    \/ NDFrom
    \/ NDReturn
    \/ NDAgain

SpecRenorm == InitRenorm /\ [][NextRenorm]_vars

\* one update_thread_labels call on a thread of up to MaxMsgs messages
InitLabels ==
    /\ path = [dirname |-> "", base |-> TargetBase]
    /\ dir = [e \in Entries |-> 0]
    /\ inode = [i \in Inodes |-> <<>>]
    /\ aw = AwIdle
    /\ rd = RdIdle
    /\ calls = 0
    /\ InitMainIdle
    /\ InitNormIdle
    /\ InitAuxIdle
    /\ tr = TrIdle
    /\ \E n \in 0 .. MaxMsgs, add \in AddLists, remove \in RemoveLists :
          ul = [UlIdle EXCEPT !.pc = "thread", !.message_ids = Ids(n),
                              !.add = add, !.remove = remove]
    /\ dn = DnIdle
    /\ rt = RtIdle

NextLabels ==
    \/ ULThread
    \/ ULGet
    \/ ULPut

SpecLabels == InitLabels /\ [][NextLabels]_vars

\* one call of check_deno_tests or check_deno_lint in a project directory
InitDeno ==
    /\ path = [dirname |-> "", base |-> TargetBase]
    /\ dir = [e \in Entries |-> 0]
    /\ inode = [i \in Inodes |-> <<>>]
    /\ aw = AwIdle
    /\ rd = RdIdle
    /\ calls = 0
    /\ InitMainIdle
    /\ InitNormIdle
    /\ InitAuxIdle
    /\ tr = TrIdle
    /\ ul = UlIdle
    /\ \E fn \in {"check_deno_tests", "check_deno_lint"}, root \in BOOLEAN, isdir \in BOOLEAN,
          sf \in BOOLEAN, listing \in Listings :
          /\ ~isdir => (~sf /\ listing = <<>>)
          /\ dn = [DnIdle EXCEPT !.pc = "build", !.fn = fn, !.root = root, !.isdir = isdir,
                                 !.sf = sf, !.listing = listing]
    /\ rt = RtIdle

NextDeno ==
    \/ DBuild
    \/ DLoop
    \/ DNone

SpecDeno == InitDeno /\ [][NextDeno]_vars

\* consecutive invocations of draft-email.py over one path
InitMain ==
    /\ path \in Paths
    /\ \E c \in Contents \cup {NoFile, <<>>} :
          /\ dir = [e \in Entries |-> IF e = Resolve(path) /\ c # NoFile THEN 1 ELSE 0]
          /\ inode = [i \in Inodes |-> IF i = 1 /\ c # NoFile THEN c ELSE <<>>]
    /\ aw = AwIdle
    /\ rd = RdIdle
    /\ calls = 0
    /\ InitMainIdle
    /\ InitMoreIdle
    /\ InitNormIdle
    /\ InitAuxIdle

NextMain ==
    \/ \E fb \in Feedbacks, pd \in PathArgs, out \in PathArgs : MStart(fb, pd, out)
    \/ MArgs
    \/ MOpenPrev
    \/ MReadPrev
    \/ MValidate
    \/ MCheckEnv
    \/ MFetch
    \/ MGenerate
    \/ MParse
    \/ MOutput
    \/ MWritten
    \/ AWCreate
    \/ AWWrite
    \/ AWClose
    \/ AWReplace
    \/ AWFailCreate
    \/ AWFailWrite
    \/ AWFailReplace

SpecMain == InitMain /\ [][NextMain]_vars

(***************************************************************************)
(* Claims about atomic_write                                               *)
(***************************************************************************)
\* a file content that is a started but unfinished write of c
StrictPrefix(s, c) == IsPrefix(s, c) /\ s # c

\* C1: while atomic_write(path, new) runs, the content readable at path is the
\* complete old content (or no file) or the complete new content; a reader that
\* opened path during the call reads one of the two; and the file being written
\* is bound to the temp name only, never to path.
C1_ReaderSeesOldOrNew ==
    /\ Running => Visible(path) \in {aw.old, aw.content}
    /\ (rd.during /\ rd.seen # NotRead) => rd.seen \in {rd.old, rd.new}
    /\ (rd.during /\ rd.pc = "open") => inode[rd.fd] \in {rd.old, rd.new}
    /\ aw.pc = "write" =>
          \A e \in Entries : dir[e] = aw.fd => (e = aw.tmp /\ e # Resolve(path))

\* the reader read the old content at path while the temp file held part of the new
C1_Witness ==
    /\ aw.pc = "write"
    /\ inode[aw.fd] # <<>>
    /\ StrictPrefix(inode[aw.fd], aw.content)
    /\ rd.during
    /\ rd.seen = aw.old
    /\ aw.old \notin {NoFile, aw.content}

\* C2: after atomic_write(path, content) returns, path reads exactly content, the
\* temp file (created in the directory of path, "." for a bare name) is gone, and
\* a directory that held nothing but the target at the call holds only the target.
C2_WrittenAndNoTempLeft ==
    /\ aw.tmp # NoEntry =>
          aw.tmp[1] = (IF path.dirname = "" THEN "." ELSE path.dirname)
    /\ (aw.pc = "returned" /\ ~aw.fault) =>
          /\ Visible(path) = aw.content
          /\ dir[aw.tmp] = 0
          /\ aw.fresh => Listdir(Resolve(path)[1]) = {path.base}

\* a call over earlier, different content has returned
C2_Witness ==
    /\ aw.pc = "returned"
    /\ aw.old \notin {NoFile, aw.content}
    /\ aw.fresh
    /\ path.dirname = ""
    /\ Visible(path) = aw.content

\* C3: a failure while writing the temp file or renaming it leaves atomic_write
\* as an exception, never as a normal return, and path holds what it held before.
C3_FailurePropagates ==
    /\ aw.fault => aw.pc = "raised"
    /\ aw.pc = "raised" => (aw.fault /\ Visible(path) = aw.old)

\* the rename failed over an existing file: the complete temp file was left behind
C3_Witness ==
    /\ aw.pc = "raised"
    /\ aw.tmp # NoEntry
    /\ dir[aw.tmp] # 0
    /\ inode[dir[aw.tmp]] = aw.content
    /\ aw.old \notin {NoFile, aw.content}
    /\ Visible(path) = aw.old

(***************************************************************************)
(* Claims about consecutive invocations of main                            *)
(***************************************************************************)
SamePath(r) == r.previous_draft = "path" /\ r.output = "path"

\* C4: in invocations using one path as --previous-draft and --output, the read
\* is over before atomic_write starts, it returned the complete content the
\* previous write put there, and when the invocation is done the path holds
\* exactly what this invocation wrote.
C4_ReadThenWriteRounds ==
    /\ Running => m.pc = "writing"
    /\ (SamePath(m) /\ m.pc \in {"writing", "done"}) =>
          (m.previous_draft_json # NotRead /\ m.fd = 0)
    /\ (SamePath(m) /\ m.previous_draft_json # NotRead /\ m.pc # "done") =>
          m.previous_draft_json = lastOut
    /\ (SamePath(m) /\ m.pc = "done") =>
          (Visible(path) = m.content /\ lastOut = m.content)

\* the second round read the first round's output and replaced it
C4_Witness ==
    /\ rounds >= 2
    /\ SamePath(m)
    /\ m.pc = "done"
    /\ m.previous_draft_json \in Contents
    /\ m.previous_draft_json # m.content
    /\ Visible(path) = m.content
    /\ dir[Resolve(path)] \notin {0, 1}

(***************************************************************************)
(* Claims about normalize_recipient and normalize_draft                    *)
(***************************************************************************)
NdDone == nd.pc \in {"returned", "raised"}

\* a dict with exactly the keys email and name
IsParticipant(r) == r.t = "dict" /\ r.email # ABSENT /\ r.name # ABSENT /\ r.extra = ABSENT

IsParticipantList(f) == f.k = "list" /\ \A i \in 1 .. Len(f.items) : IsParticipant(f.items[i])

StrOrDict(r) == (r.t = "atom" /\ IsStr(r.a)) \/ r.t = "dict"

\* lists hold only strings and objects; a single value is any non-list value
ListsOfStrOrDict(f) == f.k = "list" => \A i \in 1 .. Len(f.items) : StrOrDict(f.items[i])

\* C5: for every draft whose to, cc and bcc are each absent, falsy, a list of
\* strings and objects, or a single non-list value, normalize_draft returns a
\* dict in which to, cc and bcc are lists of {email, name} dicts: the empty list
\* for an absent or falsy field, a one-element list for a single value.
C5_RecipientListsAlways ==
    (/\ NdDone
     /\ \A key \in {"to", "cc", "bcc"} : ListsOfStrOrDict(nd.input[key])
     /\ nd.input["from"].k = "absent") =>
        /\ nd.pc = "returned"
        /\ \A key \in {"to", "cc", "bcc"} :
              /\ IsParticipantList(Result[key])
              /\ ~Truthy(nd.input[key]) => Result[key].items = <<>>
              /\ nd.input[key].k = "one" /\ Truthy(nd.input[key]) => Len(Result[key].items) = 1

\* what the claim says normalize_recipient gives
ExpectedRecipient(r) ==
    IF r.t = "atom" /\ IsStr(r.a) THEN DictR(r.a, "", ABSENT)
    ELSE IF r.t = "dict"
         THEN DictR(IF r.email \in {ABSENT, NONE} THEN "" ELSE r.email,
                    IF r.name \in {ABSENT, NONE} THEN "" ELSE r.name, ABSENT)
         ELSE DictR("", "", ABSENT)

\* C6: normalize_recipient never raises: a string s gives {email: s, name: ""},
\* an object gives its email or "" and its name or "", any other value gives
\* {email: "", name: ""}; so for every element normalize_draft passes to it.
C6_RecipientTotal == \A c \in nd.calls : c[2] = ExpectedRecipient(c[1])

\* C7: normalize_draft returns a new dict object and its argument is, at every
\* point of the call and after it, equal to what it was at the call.
C7_ArgumentNotMutated ==
    /\ nd.pc # "idle" => nd.arg = nd.input
    /\ nd.pc = "returned" => nd.result = "new"

\* a call that normalized a string recipient has returned
C7_Witness ==
    /\ nd.pc = "returned"
    /\ nd.input["cc"] = FOne(Atom("a@x"))
    /\ Result["cc"] = FList(<<DictR("a@x", "", ABSENT)>>)
    /\ nd.arg["cc"] = FOne(Atom("a@x"))

\* C8: if the result of normalize_draft has a from key, its value is a list of
\* exactly one {email, name} dict, and an absent from stays absent.
C8_FromSingleElementList ==
    nd.pc = "returned" =>
        /\ Result["from"].k # "absent" =>
              (IsParticipantList(Result["from"]) /\ Len(Result["from"].items) = 1)
        /\ nd.input["from"].k = "absent" => Result["from"].k = "absent"

\* C9: every participant normalize_recipient produces has an email and a name
\* that are strings, never null.
C9_ParticipantFieldsAreStrings ==
    \A c \in nd.calls : c[2].t = "dict" => (IsStr(c[2].email) /\ IsStr(c[2].name))

PrevDraftUnusable ==
    \/ m.start = NoFile
    \/ \A i \in 1 .. Len(m.start) : m.start[i] \in {" ", "\n"}
    \/ m.ioerror

\* C13: when --feedback and --previous-draft are both given and the previous
\* draft file is missing, unreadable, empty or whitespace-only, main ends with
\* exit status 1 and has neither called check_env nor made any request to
\* Nylas or Anthropic.
C13_BadPreviousDraftExitsBeforeEnv ==
    (m.pc # "idle" /\ m.feedback # "none" /\ m.previous_draft = "path" /\ PrevDraftUnusable)
        => /\ m.pc \in {"args", "open_prev", "read_prev", "validate", "exit1"}
           /\ ~m.env
           /\ m.net = 0
           /\ m.gen = "none"

C13_Witness ==
    /\ m.pc = "exit1"
    /\ m.feedback = "text"
    /\ m.previous_draft = "path"
    /\ m.previous_draft_json = <<"\n">>
    /\ ~m.env

\* C14: when --feedback is given without --previous-draft, or --previous-draft
\* without --feedback, main exits with status 1 before it opens any file and
\* before any network request.
C14_LoneArgumentExitsFirst ==
    (/\ m.pc \notin {"idle", "args"}
     /\ \/ m.feedback # "none" /\ m.previous_draft = "none"
        \/ m.previous_draft # "none" /\ m.feedback = "none")
        => /\ m.pc = "exit1"
           /\ m.opens = 0
           /\ ~m.env
           /\ m.net = 0

\* C15: when the fetched thread is empty, has no message_ids, or clean_messages
\* returns no messages, main exits with status 1 and has not called Anthropic,
\* printed a draft or started writing the output file.
C15_EmptyThreadStopsBeforeDraft ==
    m.fetch \in {"no_thread", "no_ids", "no_messages"}
        => /\ m.pc = "exit1"
           /\ m.gen = "none"
           /\ m.net = FetchRequests(m.fetch)
           /\ ~m.printed
           /\ aw = AwIdle

C15_Witness ==
    /\ m.fetch = "no_messages"
    /\ m.pc = "exit1"
    /\ m.output = "path"

(***************************************************************************)
(* Claims about parse_draft_response                                       *)
(***************************************************************************)
\* C11: for a response text that does not parse as JSON after stripping,
\* parse_draft_response does not raise and returns exactly the dict
\* {body: r, to: [], cc: [], subject: ""} whose body is the original,
\* unstripped text; for a text that parses it returns the parsed value.
C11_FallbackKeepsWholeText ==
    pr.pc = "normalize" =>
        IF JsonLoads(pr.response.core) = JsonError
        THEN /\ pr.draft.kind = "dict"
             /\ pr.draft.d.body = pr.response.lead \o pr.response.core \o pr.response.trail
             /\ pr.draft.d.to = FList(<<>>)
             /\ pr.draft.d.cc = FList(<<>>)
             /\ pr.draft.d.subject = ""
             /\ Keys(pr.draft.d) = {"body", "to", "cc", "subject"}
        ELSE pr.draft = JsonLoads(pr.response.core)

C11_Witness ==
    /\ pr.pc = "normalize"
    /\ pr.response = [lead |-> "\n", core |-> "Sure, here it is", trail |-> " \n"]
    /\ pr.draft.d.body = "\nSure, here it is \n"

\* C12: for every response text, parse_draft_response followed by
\* normalize_draft completes without raising and gives a draft dict whose to,
\* cc and bcc are lists, also for valid JSON that is not an object.
C12_ParseThenNormalizeCompletes ==
    /\ nd.pc # "raised"
    /\ nd.pc = "returned" =>
          /\ pr.draft.kind = "dict"
          /\ \A i \in 1 .. Len(RecipientFields) : Result[RecipientFields[i]].k = "list"

(***************************************************************************)
(* Claims about format_participant and format_thread                       *)
(***************************************************************************)
\* name or email of the participant, a missing key read as the empty string
Field(p, key) == IF p[key] = ABSENT THEN "" ELSE p[key]

\* C16: format_participant(p) returns 'name <email>' exactly when name is
\* non-empty and differs from email, and email alone otherwise; a missing name
\* or email counts as the empty string, so a name-only participant gives
\* 'name <>'.
C16_NameShownWhenItDiffers ==
    fmt.ppc = "done" =>
        IF Field(fmt.p, "name") \notin {"", NONE} /\ Field(fmt.p, "name") # Field(fmt.p, "email")
        THEN fmt.pout = Field(fmt.p, "name") \o " <" \o FStr(Field(fmt.p, "email")) \o ">"
        ELSE fmt.pout = Field(fmt.p, "email")

C16_Witness ==
    /\ fmt.ppc = "done"
    /\ fmt.p = [name |-> "Ann", email |-> ABSENT]
    /\ fmt.pout = "Ann <>"

\* C17: format_thread emits every input message exactly once, in
\* non-decreasing date order whatever the input order (a missing date counts
\* as 0, equal dates keep their input order), labels them 'Message i of N'
\* with i = 1..N in output order, and leaves the caller's list as it was.
C17_ThreadSortedStableLabelled ==
    fmt.tpc = "done" =>
        /\ Len(fmt.out) = Len(fmt.input)
        /\ \A k \in 1 .. Len(fmt.input) :
              Cardinality({i \in 1 .. Len(fmt.out) : fmt.out[i].msg = fmt.input[k]}) = 1
        /\ \A i, j \in 1 .. Len(fmt.out) :
              i < j =>
                 /\ DateKey(fmt.out[i].msg) <= DateKey(fmt.out[j].msg)
                 /\ DateKey(fmt.out[i].msg) = DateKey(fmt.out[j].msg)
                       => fmt.out[i].msg.id < fmt.out[j].msg.id
        /\ \A i \in 1 .. Len(fmt.out) :
              fmt.out[i].label =
                 "--- Message " \o ToString(i) \o " of " \o ToString(Len(fmt.input)) \o " ---"
        /\ fmt.messages = fmt.input

C17_Witness ==
    /\ fmt.tpc = "done"
    /\ fmt.input = <<Msg(1, TRUE, 2), Msg(2, FALSE, 0), Msg(3, TRUE, 0)>>
    /\ [i \in 1 .. 3 |-> fmt.out[i].msg.id] = <<2, 3, 1>>
    /\ fmt.out[3].label = "--- Message 3 of 3 ---"

(***************************************************************************)
(* Claims about clean_messages                                             *)
(***************************************************************************)
RECURSIVE Concat(_)
\* the lists of a list joined in order
Concat(ss) == IF ss = <<>> THEN <<>> ELSE Concat(SubSeq(ss, 1, Len(ss) - 1)) \o ss[Len(ss)]

\* C18: clean_messages(ids) issues exactly ceil(len(ids)/20) requests of 1 to
\* 20 ids each, the batches joined in request order are ids, and the list
\* returned is the responses' data joined in batch order; an empty ids list
\* issues no request and returns []; a failed batch exits the process and
\* nothing is returned.
C18_BatchesCoverIdsInOrder ==
    /\ \A k \in 1 .. Len(cm.requests) :
          Len(cm.requests[k]) >= 1 /\ Len(cm.requests[k]) <= 20
    /\ cm.pc = "returned" =>
          /\ Len(cm.requests) = (Len(cm.message_ids) + 19) \div 20
          /\ Concat(cm.requests) = cm.message_ids
          /\ cm.result = Concat(cm.datas)
          /\ ~cm.failed
          /\ cm.message_ids = <<>> => cm.requests = <<>> /\ cm.result = <<>>
    /\ cm.failed => cm.pc = "exit1" /\ cm.result = <<>>

C18_Witness ==
    /\ cm.pc = "returned"
    /\ Len(cm.message_ids) = 41
    /\ Len(cm.requests) = 3
    /\ Len(cm.requests[3]) = 1
    /\ Len(cm.result) = 22

(***************************************************************************)
(* Claims about the pre-commit hook                                        *)
(***************************************************************************)
\* C19: for a command containing 'git commit' while the current branch is
\* main or master, the hook exits with status 2, never 0, and before it runs
\* any test or lint, whatever files are staged.
C19_CommitOnMainBlocked ==
    (hk.input = "json" /\ hk.command.commit /\ hk.branch \in {"main", "master"})
        => /\ hk.ran = <<>>
           /\ hk.pc = "exit" => hk.exit = 2

\* C20: for a 'git commit' that is neither blocked by the branch nor
\* beads-only, the hook calls the four checks (deno tests, deno lint, npm
\* tests, npm lint) once each, every one whatever the earlier ones returned,
\* and exits 2 if any returned failure and 0 only if all succeeded.
C20_AllFourChecksDecide ==
    (/\ hk.pc = "exit"
     /\ hk.input = "json"
     /\ hk.command.commit
     /\ hk.current_branch \notin {"main", "master"}
     /\ ~(hk.staged_files # <<>> /\ \A i \in 1 .. Len(hk.staged_files) :
                                       hk.staged_files[i][1] = ".beads"))
        => /\ hk.ran = <<"check_deno_tests", "check_deno_lint", "check_npm_tests",
                         "check_npm_lint">>
           /\ Len(hk.results) = 4
           /\ hk.exit = 2 <=> \E k \in 1 .. 4 : ~hk.results[k]
           /\ hk.exit = 0 <=> \A k \in 1 .. 4 : hk.results[k]

C20_Witness ==
    /\ hk.pc = "exit"
    /\ hk.command.commit
    /\ hk.current_branch = "feature"
    /\ hk.staged_files = <<<<".beads", "issues.jsonl">>, <<"src", "a.py">>>>
    /\ hk.results = <<FALSE, TRUE, TRUE, TRUE>>
    /\ hk.exit = 2

\* C21: every command that contains 'git push' and 'origin' and names 'main'
\* or 'master' is blocked by the hook with exit status 2, whichever branch is
\* checked out.
C21_PushNamingMainBlocked ==
    (/\ hk.pc = "exit"
     /\ hk.input = "json"
     /\ hk.command.push
     /\ hk.command.origin
     /\ (hk.command.main \/ hk.command.master))
        => hk.exit = 2

\* C22: for a commit not on main or master whose staged file list is
\* non-empty and has only paths starting with '.beads/', the hook runs none of
\* the four checks and exits 0; with an empty staged list, or with a staged
\* path outside .beads/, the checks are run.
C22_BeadsOnlySkipsChecks ==
    (/\ hk.input = "json"
     /\ hk.command.commit
     /\ hk.branch \notin {"main", "master"})
        => IF /\ hk.staged_files # <<>>
              /\ \A i \in 1 .. Len(hk.staged_files) : hk.staged_files[i][1] = ".beads"
           THEN /\ hk.ran = <<>>
                /\ hk.pc # "checks"
                /\ hk.pc = "exit" => hk.exit = 0
           ELSE hk.pc = "exit" =>
                   hk.ran = <<"check_deno_tests", "check_deno_lint", "check_npm_tests",
                              "check_npm_lint">>

C22_Witness ==
    /\ hk.pc = "exit"
    /\ hk.command.commit
    /\ hk.branch = "feature"
    /\ hk.staged_files = <<<<".beads", "issues.jsonl">>>>
    /\ hk.ran = <<>>
    /\ hk.exit = 0

(***************************************************************************)
(* Claims about truncate and line                                          *)
(***************************************************************************)
\* C23: truncate(text, maxWidth) never returns a string whose display width
\* exceeds maxWidth, for every text and every maxWidth >= 0 (below 3 too),
\* and returns text unchanged whenever displayWidth(text) <= maxWidth.
C23_TruncateFitsWidth ==
    tr.tpc = "done" =>
        /\ DisplayWidth(tr.tout) <= tr.maxWidth
        /\ DisplayWidth(tr.text) <= tr.maxWidth => tr.tout = tr.text

\* C24: line(text, W) has total display width exactly W for every text and
\* every panel width W, also for double-width glyphs and for text wider
\* than W - 4.
C24_LineIsExactlyW == tr.lpc = "done" => DisplayWidth(tr.lout) = tr.W

(***************************************************************************)
(* Claims about repeated and recipient-less normalization                  *)
(***************************************************************************)
\* C25: normalize_draft is idempotent: for every draft on which it succeeds,
\* normalizing its result again succeeds and returns an equal dict.
C25_NormalizeIdempotent ==
    rt.round = 2 =>
        /\ nd.pc # "raised"
        /\ nd.pc = "returned" => Result = rt.first

C25_Witness ==
    /\ rt.round = 2
    /\ nd.pc = "returned"
    /\ rt.first["to"] = FList(<<DictR("a@x", "", ABSENT), DictR("a@x", "Ann", ABSENT)>>)
    /\ rt.first["from"] = FList(<<DictR("a@x", "", ABSENT)>>)
    /\ Result = rt.first

NoRecipientKeys == \A i \in 1 .. Len(RecipientFields) : nd.input[RecipientFields[i]].k = "absent"

C27_GetThenPutPerMessage ==
    /\ \A i \in 1 .. Len(ul.log) :
          IF i % 2 = 1
          THEN ul.log[i].op = "GET" /\ ul.log[i].id = ul.message_ids[(i + 1) \div 2]
          ELSE /\ ul.log[i].op = "PUT"
               /\ ul.log[i].id = ul.message_ids[i \div 2]
               /\ ul.log[i].labels =
                     (ul.log[i - 1].labels \ {ul.remove[j] : j \in 1 .. Len(ul.remove)})
                        \cup {ul.add[j] : j \in 1 .. Len(ul.add)}
    /\ ul.pc = "returned" => Len(ul.log) = 2 * Len(ul.message_ids)
    /\ ul.message_ids = <<>> => ul.log = <<>>

C27_Witness ==
    /\ ul.pc = "returned"
    /\ Len(ul.message_ids) = 2
    /\ ul.add = <<"L1", "L2">>
    /\ ul.remove = <<"L2", "L1">>
    /\ ul.log[3] = [op |-> "GET", id |-> 2, labels |-> {"L1"}]
    /\ ul.log[4] = [op |-> "PUT", id |-> 2, labels |-> {"L1", "L2"}]

(***************************************************************************)
(* Claims about the order of the steps of main                             *)
(***************************************************************************)
\* C28: in main the write to --output happens at most once per run and only
\* as the last step, after the argument checks, the previous-draft checks,
\* the thread fetch, the generation, the parse and the normalization have
\* succeeded; on every error exit the file at the output path is as it was
\* when the run started.
C28_WriteOnceAtTheEnd ==
    /\ m.writes <= 1
    /\ (m.writes = 1 \/ aw.pc # "idle") =>
          /\ m.pc \in {"writing", "done", "raised"}
          /\ m.output = "path"
          /\ m.env
          /\ m.fetch = "ok"
          /\ m.gen # "none"
          /\ m.content \in Contents
          /\ m.feedback = "text" =>
                (m.previous_draft_json # NotRead
                   /\ \E i \in 1 .. Len(m.previous_draft_json) :
                         m.previous_draft_json[i] \notin {" ", "\n"})
    /\ m.pc \in {"exit1", "raised"} => Visible(path) = m.start

C28_Witness ==
    /\ m.pc = "exit1"
    /\ rounds = 2
    /\ m.output = "path"
    /\ m.fetch = "clean_failed"
    /\ lastOut = <<"b", "\n">>
    /\ Visible(path) = <<"b", "\n">>

\* C29: main calls generate_with_feedback only when both the feedback text
\* and the content read from the previous-draft file are non-blank; in every
\* other combination of --feedback and --previous-draft it exits with an
\* error or calls generate_draft, and it never calls both in one run.
C29_FeedbackGeneratorNeedsBoth ==
    /\ m.gen = "feedback" =>
          /\ m.feedback = "text"
          /\ m.previous_draft = "path"
          /\ m.previous_draft_json # NotRead
          /\ \E i \in 1 .. Len(m.previous_draft_json) :
                m.previous_draft_json[i] \notin {" ", "\n"}
    /\ m.gen # "none" => m.net = FetchRequests("ok") + 1
    /\ (m.pc \in {"parse", "output", "writing", "done"} /\ m.feedback # "text") => m.gen = "plain"

C29_Witness ==
    /\ m.gen = "feedback"
    /\ m.pc = "done"
    /\ m.feedback = "text"
    /\ m.previous_draft_json = <<"a", "b", "\n">>

(***************************************************************************)
(* Claims about the deno checks                                            *)
(***************************************************************************)
\* the first deno.json there is, in the order project root,
\* supabase/functions, function directories; <<>> when there is none
FirstDenoJson ==
    IF dn.root THEN <<"root">>
    ELSE IF dn.isdir /\ dn.sf THEN <<"supabase/functions">>
         ELSE IF dn.isdir /\ \E i \in 1 .. Len(dn.listing) : dn.listing[i]
              THEN <<"supabase/functions",
                     CHOOSE i \in 1 .. Len(dn.listing) :
                        dn.listing[i] /\ \A h \in 1 .. i - 1 : ~dn.listing[h]>>
              ELSE <<>>

\* C30: check_deno_tests and check_deno_lint each run deno in at most one
\* directory per call, that of the first existing deno.json in the order
\* project root, supabase/functions, function directories; the call returns
\* after that one run without examining a later location, and returns
\* success when there is no deno.json.
C30_DenoRunsOnceInFirstDir ==
    /\ Len(dn.runs) <= 1
    /\ dn.runs # <<>> =>
          /\ dn.pc = "returned"
          /\ dn.runs[1][1] = FirstDenoJson
          /\ dn.examined[Len(dn.examined)] = FirstDenoJson
          /\ dn.ret = "False" <=> dn.runs[1][2] \in {"failed", "timeout"}
    /\ \A j \in 1 .. Len(dn.examined) :
          \A h \in 1 .. j - 1 : dn.examined[h] # dn.examined[j] /\ dn.examined[h] # FirstDenoJson
    /\ dn.pc = "returned" =>
          /\ dn.runs = <<>> <=> FirstDenoJson = <<>>
          /\ FirstDenoJson = <<>> => dn.ret = "True"

C30_Witness ==
    /\ dn.pc = "returned"
    /\ dn.fn = "check_deno_lint"
    /\ ~dn.root
    /\ ~dn.sf
    /\ dn.listing = <<TRUE, TRUE>>
    /\ dn.runs = <<<<<<"supabase/functions", 1>>, "failed">>>>
    /\ Len(dn.examined) = 3
    /\ dn.ret = "False"

=============================================================================
